---- MODULE Spec2Model ----
(***************************************************************************)
(* Model of src/components/AnalyticsOverview.js: the session tracker of    *)
(* the Analytics Overview panel (startSession, endSession, the mount       *)
(* effect, the 60-second interval effect) over a shared localStorage, and  *)
(* the pure function formatUptime.                                         *)
(*                                                                         *)
(* Strings are sequences of one-character strings, so that String(n),      *)
(* parseInt(s, 10) and padStart are computed and not assumed.  All         *)
(* handlers run to completion (single UI thread); React commits the state  *)
(* updates of a handler before the next event, so the closure of the       *)
(* current render sees the committed state.  The modelled interval lies    *)
(* within one calendar day, so todayKey is one fixed key.                  *)
(***************************************************************************)
EXTENDS Integers, Sequences, FiniteSets

(* ---------------------------------------------------------------- bounds *)
StepsPerTick == 2
MaxClockSteps == 6
MaxFmtMinutes == 130
MaxApiCalls == 1
MaxApiClockSteps == 2
MaxQueryClockSteps == 2
MaxScenarios == 1

(* ------------------------------------------------------------- constants *)
TickMs == 60000
MsPerMinute == 60000
MinutesPerHour == 60
PadWidth == 2

Quantum == TickMs \div StepsPerTick
T0 == 10 * TickMs
MaxTime == T0 + MaxClockSteps * Quantum

Inst == {"tabA", "tabB"}

(* ------------------------------------------------------- string helpers *)
Digits == <<"0", "1", "2", "3", "4", "5", "6", "7", "8", "9">>

IsDigit(c) == \E d \in 1..10 : Digits[d] = c

DigitVal(c) == (CHOOSE d \in 1..10 : Digits[d] = c) - 1

RECURSIVE NumToString(_)
NumToString(n) ==
    IF n < 10 THEN <<Digits[n + 1]>>
    ELSE Append(NumToString(n \div 10), Digits[(n % 10) + 1])

padStart(s, width, c) ==
    IF Len(s) >= width THEN s
    ELSE [k \in 1..(width - Len(s)) |-> c] \o s

NaN == -1

RECURSIVE ParseDigits(_, _, _)
ParseDigits(s, k, acc) ==
    IF k > Len(s) \/ ~IsDigit(s[k]) THEN acc
    ELSE ParseDigits(s, k + 1, acc * 10 + DigitVal(s[k]))

parseInt(s) ==
    IF Len(s) = 0 \/ ~IsDigit(s[1]) THEN NaN ELSE ParseDigits(s, 1, 0)

Truthy(n) == n # NaN /\ n # 0

OrZero(n) == IF Truthy(n) THEN n ELSE 0

StrTrue == <<"t", "r", "u", "e">>
StrFalse == <<"f", "a", "l", "s", "e">>
StrNull == <<"n", "u", "l", "l">>
StrGarbage == <<"x">>

(* --------------------------------------------------------- localStorage *)
KeyStart == "sessionStart"
KeyActive == "sessionActive"
KeyUptime == "dailyUptime_today"
KeyCount == "sessionCount"

getItem(l, k) == IF k \in DOMAIN l THEN l[k] ELSE StrNull

setItem(l, k, v) == [x \in (DOMAIN l) \cup {k} |-> IF x = k THEN v ELSE l[x]]

removeItem(l, k) == [x \in (DOMAIN l) \ {k} |-> l[x]]

EmptyStorage == [x \in {} |-> <<>>]

(* localStorage.getItem(k) || d: null and the empty string are falsy.     *)
getItemOr(l, k, d) == IF k \in DOMAIN l /\ Len(l[k]) > 0 THEN l[k] ELSE d

(* ------------------------------------------------------- pure functions *)
(* formatUptime without the remainder: minutes are not reduced mod 60.    *)
formatUptime_NoRemainder(ms) ==
    LET mins == ms \div MsPerMinute
        h == padStart(NumToString(mins \div MinutesPerHour), PadWidth, "0")
        m == padStart(NumToString(mins), PadWidth, "0")
    IN  h \o <<"h", " ">> \o m \o <<"m">>

formatUptime(ms) ==
    LET mins == ms \div MsPerMinute
        h == padStart(NumToString(mins \div MinutesPerHour), PadWidth, "0")
        m == padStart(NumToString(mins % MinutesPerHour), PadWidth, "0")
    IN  h \o <<"h", " ">> \o m \o <<"m">>

(* ------------------------------------------------------ session tracker *)
(* startSession without its guard: it writes the marker whenever called.  *)
startSession_Unguarded(l, active, t) ==
    [ls |-> setItem(setItem(l, KeyStart, NumToString(t)), KeyActive, StrTrue),
     sessionActive |-> TRUE,
     wrote |-> 1]

(* startSession that forgets to persist the active flag.                  *)
startSession_NoFlag(l, active, t) ==
    IF ~active
    THEN [ls |-> setItem(l, KeyStart, NumToString(t)),
          sessionActive |-> TRUE,
          wrote |-> 1]
    ELSE [ls |-> l, sessionActive |-> active, wrote |-> 0]

(* startSession that also counts the session in sessionCount.             *)
startSession_CountsSession(l, active, t) ==
    IF ~active
    THEN [ls |-> setItem(setItem(setItem(l, KeyStart, NumToString(t)), KeyActive, StrTrue),
                         KeyCount,
                         NumToString(OrZero(parseInt(getItemOr(l, KeyCount, <<"0">>))) + 1)),
          sessionActive |-> TRUE,
          wrote |-> 1]
    ELSE [ls |-> l, sessionActive |-> active, wrote |-> 0]

(* startSession, called from a render whose sessionActive is `active`.    *)
startSession(l, active, t) ==
    IF ~active
    THEN [ls |-> setItem(setItem(l, KeyStart, NumToString(t)), KeyActive, StrTrue),
          sessionActive |-> TRUE,
          wrote |-> 1]
    ELSE [ls |-> l, sessionActive |-> active, wrote |-> 0]

(* endSession that forgets the previous total: total = elapsed.           *)
endSession_NoPrev(l, du, t) ==
    LET startTs == parseInt(getItem(l, KeyStart))
        elapsed == t - startTs
        l1 == IF Truthy(startTs) THEN setItem(l, KeyUptime, NumToString(elapsed)) ELSE l
    IN  [ls |-> setItem(removeItem(l1, KeyStart), KeyActive, StrFalse),
         dailyUptime |-> IF Truthy(startTs) THEN elapsed ELSE du,
         sessionActive |-> FALSE]

(* endSession that charges a fixed minute when there is no start marker.  *)
endSession_ChargeAlways(l, du, t) ==
    LET startTs == parseInt(getItem(l, KeyStart))
        elapsed == IF Truthy(startTs) THEN t - startTs ELSE MsPerMinute
        prev == OrZero(parseInt(getItem(l, KeyUptime)))
        total == prev + elapsed
    IN  [ls |-> setItem(removeItem(setItem(l, KeyUptime, NumToString(total)), KeyStart),
                        KeyActive, StrFalse),
         dailyUptime |-> total,
         sessionActive |-> FALSE]

(* endSession that charges the time since the epoch instead of elapsed.   *)
endSession_NoStart(l, du, t) ==
    LET startTs == parseInt(getItem(l, KeyStart))
        prev == OrZero(parseInt(getItem(l, KeyUptime)))
        total == prev + t
        l1 == IF Truthy(startTs) THEN setItem(l, KeyUptime, NumToString(total)) ELSE l
    IN  [ls |-> setItem(removeItem(l1, KeyStart), KeyActive, StrFalse),
         dailyUptime |-> IF Truthy(startTs) THEN total ELSE du,
         sessionActive |-> FALSE]

(* endSession that forgets to remove the start marker.                    *)
endSession_KeepMarker(l, du, t) ==
    LET startTs == parseInt(getItem(l, KeyStart))
        elapsed == t - startTs
        prev == OrZero(parseInt(getItem(l, KeyUptime)))
        total == prev + elapsed
        l1 == IF Truthy(startTs) THEN setItem(l, KeyUptime, NumToString(total)) ELSE l
    IN  [ls |-> setItem(l1, KeyActive, StrFalse),
         dailyUptime |-> IF Truthy(startTs) THEN total ELSE du,
         sessionActive |-> FALSE]

(* endSession reads only localStorage and the clock; du is the in-memory  *)
(* daily total before the call.                                           *)
endSession(l, du, t) ==
    LET startTs == parseInt(getItem(l, KeyStart))
        elapsed == t - startTs
        prev == OrZero(parseInt(getItem(l, KeyUptime)))
        total == prev + elapsed
        l1 == IF Truthy(startTs) THEN setItem(l, KeyUptime, NumToString(total)) ELSE l
    IN  [ls |-> setItem(removeItem(l1, KeyStart), KeyActive, StrFalse),
         dailyUptime |-> IF Truthy(startTs) THEN total ELSE du,
         sessionActive |-> FALSE]

(* The callback with the minutes of a history entry rounded up.           *)
intervalCallback_Ceil(l, active, du, hist, t) ==
    LET startTs == parseInt(getItem(l, KeyStart))
        elapsed == t - startTs
        prev == OrZero(parseInt(getItem(l, KeyUptime)))
        total == prev + elapsed
    IN  IF active /\ Truthy(startTs)
        THEN [ls |-> setItem(l, KeyUptime, NumToString(total)),
              dailyUptime |-> total,
              uptimeHistory |-> Append(hist, [time |-> t,
                                  uptime |-> (total + MsPerMinute - 1) \div MsPerMinute]),
              accrued |-> TRUE]
        ELSE [ls |-> l, dailyUptime |-> du, uptimeHistory |-> hist, accrued |-> FALSE]

(* The callback that charges a full period when the marker is missing.   *)
intervalCallback_NoMarkerCheck(l, active, du, hist, t) ==
    LET startTs == parseInt(getItem(l, KeyStart))
        elapsed == IF Truthy(startTs) THEN t - startTs ELSE TickMs
        prev == OrZero(parseInt(getItem(l, KeyUptime)))
        total == prev + elapsed
    IN  IF active
        THEN [ls |-> setItem(l, KeyUptime, NumToString(total)),
              dailyUptime |-> total,
              uptimeHistory |-> Append(hist, [time |-> t, uptime |-> total \div MsPerMinute]),
              accrued |-> Truthy(startTs)]
        ELSE [ls |-> l, dailyUptime |-> du, uptimeHistory |-> hist, accrued |-> FALSE]

(* The callback that displays the elapsed time instead of the total.      *)
intervalCallback_ShowElapsed(l, active, du, hist, t) ==
    LET startTs == parseInt(getItem(l, KeyStart))
        elapsed == t - startTs
        prev == OrZero(parseInt(getItem(l, KeyUptime)))
        total == prev + elapsed
    IN  IF active /\ Truthy(startTs)
        THEN [ls |-> setItem(l, KeyUptime, NumToString(total)),
              dailyUptime |-> elapsed,
              uptimeHistory |-> Append(hist, [time |-> t, uptime |-> total \div MsPerMinute]),
              accrued |-> TRUE]
        ELSE [ls |-> l, dailyUptime |-> du, uptimeHistory |-> hist, accrued |-> FALSE]

(* The callback of setInterval, closed over sessionActive = active.       *)
intervalCallback(l, active, du, hist, t) ==
    LET startTs == parseInt(getItem(l, KeyStart))
        elapsed == t - startTs
        prev == OrZero(parseInt(getItem(l, KeyUptime)))
        total == prev + elapsed
    IN  IF active /\ Truthy(startTs)
        THEN [ls |-> setItem(l, KeyUptime, NumToString(total)),
              dailyUptime |-> total,
              uptimeHistory |-> Append(hist, [time |-> t, uptime |-> total \div MsPerMinute]),
              accrued |-> TRUE]
        ELSE [ls |-> l, dailyUptime |-> du, uptimeHistory |-> hist, accrued |-> FALSE]

(* The mount effect that starts a session whatever the persisted flag.    *)
mountEffect_AlwaysStart(l, t) ==
    LET active == getItem(l, KeyActive) = StrTrue
        storedUptime == OrZero(parseInt(getItem(l, KeyUptime)))
        s == startSession(l, FALSE, t)
    IN  [ls |-> s.ls,
         sessionActive |-> s.sessionActive,
         dailyUptime |-> storedUptime,
         wrote |-> s.wrote,
         adopted |-> active]

(* The mount effect up to the registration of the unload listener; the    *)
(* startSession it calls is the one of the first render, whose            *)
(* sessionActive is the initial state FALSE.                              *)
mountEffect(l, t) ==
    LET active == getItem(l, KeyActive) = StrTrue
        storedUptime == OrZero(parseInt(getItem(l, KeyUptime)))
        s == IF ~active THEN startSession(l, FALSE, t)
             ELSE [ls |-> l, sessionActive |-> active, wrote |-> 0]
    IN  [ls |-> s.ls,
         sessionActive |-> s.sessionActive,
         dailyUptime |-> storedUptime,
         wrote |-> s.wrote,
         adopted |-> active]

(* The sessionCount effect: the value it gives to setTotalSessions.        *)
sessionCountEffect(l) == parseInt(getItemOr(l, KeyCount, <<"0">>))

(* The cleanup of the interval effect.                                    *)
NoTimer == -1

clearInterval_Forgotten(due) == due

clearInterval(due) == NoTimer

(* The continuation of fetchScenarios after await getDocs(q): size is     *)
(* snapshot.size, ts the displayed count; it applies to a mounted         *)
(* component only, React drops the state update of an unmounted one.      *)
fetchScenarios_StoresCount(l, du, ts, isMounted, size) ==
    [ls |-> setItem(l, KeyUptime, NumToString(size)),
     dailyUptime |-> size,
     totalScenarios |-> IF isMounted THEN size ELSE ts]

fetchScenarios(l, du, ts, isMounted, size) ==
    [ls |-> l,
     dailyUptime |-> du,
     totalScenarios |-> IF isMounted THEN size ELSE ts]

(* ------------------------------------------------------------------ state *)
VARIABLES
    now,            \* Date.now(), in ms
    ls,             \* localStorage shared by the instances: key -> string
    mounted,        \* instance -> is the component mounted
    sessionActive,  \* instance -> React state sessionActive
    dailyUptime,    \* instance -> React state dailyUptime
    uptimeHistory,  \* instance -> React state uptimeHistory
    timerDue,       \* instance -> time the interval fires next, NoTimer if none
    totalSessions,  \* instance -> React state totalSessions
    totalScenarios, \* instance -> React state totalScenarios
    query,          \* instance -> the scenario query: "idle", "pending", "done"
    opened,         \* instance -> has the tab been opened
    closed,         \* history variable: endSession ran and no start marker
                    \* was written since
    apiCalls,       \* number of direct calls of startSession so far
    lastOp,         \* history variable: the handler that ran last
    sess,           \* history variable: per mounted instance, since its mount
    fmtIn,          \* argument of formatUptime
    fmtOut          \* result of formatUptime(fmtIn)

vars == <<now, ls, mounted, sessionActive, dailyUptime, uptimeHistory, timerDue,
          totalSessions, totalScenarios, query, opened, closed, apiCalls, lastOp, sess,
          fmtIn, fmtOut>>

NoInst == "none"

(* The persisted daily total as the code reads it.                        *)
Stored == OrZero(parseInt(getItem(ls, KeyUptime)))

MarkerValid == Truthy(parseInt(getItem(ls, KeyStart)))

(* sess[i], since the mount of i: t0 = time at which i wrote the start    *)
(* marker (NaN if it did not), base = persisted total at that time, n =   *)
(* ticks of i that accrued since, solo = no handler of another instance   *)
(* ran, starts = start markers i wrote, adopted = the mount found the     *)
(* persisted flag "true", open = i called startSession and no endSession  *)
(* ran since.                                                             *)
FreshSess ==
    [t0 |-> NaN, base |-> 0, n |-> 0, solo |-> TRUE, starts |-> 0,
     adopted |-> FALSE, open |-> FALSE]

(* lastOp: the handler, its instance, whether the start marker was valid  *)
(* when it began, whether it accrued (tick), how many start markers it    *)
(* wrote, how many times it ran endSession, and the sess record of its    *)
(* instance when it began.                                                *)
Op(name, i, starts, ends, accrued) ==
    [op |-> name, inst |-> i, valid |-> MarkerValid, accrued |-> accrued,
     starts |-> starts, ends |-> ends,
     s |-> IF i \in Inst THEN sess[i] ELSE FreshSess]

EndOps == {"end", "unload", "unmount"}

(* Every handler of instance i is an operation foreign to the others;     *)
(* ended tells that the handler ran endSession.                           *)
Foreign(i, s, ended) ==
    [j \in Inst |->
        IF j = i THEN s
        ELSE IF mounted[j]
             THEN [sess[j] EXCEPT !.solo = FALSE, !.open = IF ended THEN FALSE ELSE @]
             ELSE sess[j]]

(* What an earlier page may have left behind: nothing, a cleanly ended    *)
(* session, a session whose page died (flag "true", old marker), and a    *)
(* marker that does not parse; sessionCount is written by other parts of  *)
(* the application.                                                       *)
InitStorage ==
    { EmptyStorage,
      [x \in {KeyActive, KeyUptime, KeyCount} |->
          CASE x = KeyActive -> StrFalse
            [] x = KeyCount -> <<"3">>
            [] OTHER -> NumToString(Quantum)],
      [x \in {KeyActive, KeyStart, KeyUptime, KeyCount} |->
          CASE x = KeyActive -> StrTrue
            [] x = KeyStart -> NumToString(T0 - TickMs)
            [] x = KeyCount -> <<"1", "2">>
            [] OTHER -> NumToString(Quantum)],
      [x \in {KeyActive, KeyStart} |->
          IF x = KeyActive THEN StrTrue ELSE StrGarbage] }

Idle ==
    /\ now = T0
    /\ mounted = [i \in Inst |-> FALSE]
    /\ sessionActive = [i \in Inst |-> FALSE]
    /\ dailyUptime = [i \in Inst |-> 0]
    /\ uptimeHistory = [i \in Inst |-> <<>>]
    /\ timerDue = [i \in Inst |-> NoTimer]
    /\ totalSessions = [i \in Inst |-> 0]
    /\ totalScenarios = [i \in Inst |-> 0]
    /\ query = [i \in Inst |-> "idle"]
    /\ opened = [i \in Inst |-> FALSE]
    /\ closed = FALSE
    /\ apiCalls = 0
    /\ sess = [i \in Inst |-> FreshSess]

Init ==
    /\ Idle
    /\ ls \in InitStorage
    /\ lastOp = Op("init", NoInst, 0, 0, FALSE)
    /\ fmtIn = 0
    /\ fmtOut = formatUptime(0)

(* The interval effect runs again when sessionActive changed.             *)
Rearm(i, after) == IF after # sessionActive[i] THEN now + TickMs ELSE timerDue[i]

(* Each tab is opened once; a component mounted again starts from the     *)
(* initial React state, as the component of the other tab does.  The      *)
(* tabs are interchangeable: tabA is the first to open.                   *)
Mount(i) ==
    /\ ~opened[i]
    /\ i = "tabB" => opened["tabA"]
    /\ LET r == mountEffect(ls, now)
       IN  /\ ls' = r.ls
           /\ sessionActive' = [sessionActive EXCEPT ![i] = r.sessionActive]
           /\ dailyUptime' = [dailyUptime EXCEPT ![i] = r.dailyUptime]
           /\ lastOp' = Op("mount", i, r.wrote, 0, FALSE)
           /\ closed' = IF r.wrote = 1 THEN FALSE ELSE closed
           /\ sess' = Foreign(i, [t0 |-> IF r.wrote = 1 THEN now ELSE NaN,
                                  base |-> Stored, n |-> 0, solo |-> TRUE,
                                  starts |-> r.wrote, adopted |-> r.adopted,
                                  open |-> ~r.adopted], FALSE)
    /\ mounted' = [mounted EXCEPT ![i] = TRUE]
    /\ uptimeHistory' = [uptimeHistory EXCEPT ![i] = <<>>]
    /\ timerDue' = [timerDue EXCEPT ![i] = now + TickMs]
    /\ opened' = [opened EXCEPT ![i] = TRUE]
    /\ totalSessions' = [totalSessions EXCEPT ![i] = sessionCountEffect(ls)]
    /\ query' = [query EXCEPT ![i] = "pending"]
    /\ UNCHANGED <<now, totalScenarios, apiCalls, fmtIn, fmtOut>>

Tick(i) ==
    /\ timerDue[i] = now
    /\ LET r == intervalCallback(ls, sessionActive[i], dailyUptime[i], uptimeHistory[i], now)
       IN  /\ ls' = r.ls
           /\ dailyUptime' = [dailyUptime EXCEPT ![i] = r.dailyUptime]
           /\ uptimeHistory' = [uptimeHistory EXCEPT ![i] = r.uptimeHistory]
           /\ lastOp' = Op("tick", i, 0, 0, r.accrued)
           /\ sess' = Foreign(i, [sess[i] EXCEPT !.n = IF r.accrued THEN @ + 1 ELSE @],
                              FALSE)
    /\ timerDue' = [timerDue EXCEPT ![i] = now + TickMs]
    /\ UNCHANGED <<now, mounted, sessionActive, totalSessions, totalScenarios, query,
                   opened, closed, apiCalls, fmtIn, fmtOut>>

(* endSession in a component that stays mounted: the End Session button   *)
(* and an unload that is cancelled.                                       *)
RunEnd(i, name) ==
    LET r == endSession(ls, dailyUptime[i], now)
    IN  /\ ls' = r.ls
        /\ dailyUptime' = [dailyUptime EXCEPT ![i] = r.dailyUptime]
        /\ sessionActive' = [sessionActive EXCEPT ![i] = r.sessionActive]
        /\ timerDue' = [timerDue EXCEPT ![i] = Rearm(i, r.sessionActive)]
        /\ lastOp' = Op(name, i, 0, 1, FALSE)
        /\ sess' = Foreign(i, [sess[i] EXCEPT !.open = FALSE], TRUE)
        /\ closed' = TRUE
        /\ UNCHANGED <<now, mounted, uptimeHistory, totalSessions, totalScenarios, query,
                       opened, apiCalls, fmtIn, fmtOut>>

(* endSession in a component that goes away: its React state goes with    *)
(* it, its interval is left at `due`, a query in flight stays in flight.  *)
Discard(i, name, due) ==
    LET r == endSession(ls, dailyUptime[i], now)
    IN  /\ ls' = r.ls
        /\ mounted' = [mounted EXCEPT ![i] = FALSE]
        /\ sessionActive' = [sessionActive EXCEPT ![i] = FALSE]
        /\ dailyUptime' = [dailyUptime EXCEPT ![i] = 0]
        /\ uptimeHistory' = [uptimeHistory EXCEPT ![i] = <<>>]
        /\ totalSessions' = [totalSessions EXCEPT ![i] = 0]
        /\ totalScenarios' = [totalScenarios EXCEPT ![i] = 0]
        /\ timerDue' = [timerDue EXCEPT ![i] = due]
        /\ lastOp' = Op(name, i, 0, 1, FALSE)
        /\ sess' = Foreign(i, FreshSess, TRUE)
        /\ closed' = TRUE
        /\ UNCHANGED <<now, query, opened, apiCalls, fmtIn, fmtOut>>

EndClick(i) ==
    /\ mounted[i]
    /\ RunEnd(i, "end")

(* beforeunload: the listener runs endSession; the unload is then         *)
(* cancelled and the component stays.                                     *)
UnloadStay(i) ==
    /\ mounted[i]
    /\ RunEnd(i, "unload")

(* beforeunload: the listener runs endSession and the page goes away      *)
(* without running the effect cleanups; its timers go with the page.      *)
UnloadLeave(i) ==
    /\ mounted[i]
    /\ Discard(i, "unload", NoTimer)

(* The cleanups of both effects: endSession and clearInterval.            *)
Unmount(i) ==
    /\ mounted[i]
    /\ Discard(i, "unmount", clearInterval(timerDue[i]))

(* Time passes; an interval that is due fires before the clock moves on.  *)
AdvanceTo(limit) ==
    /\ now < limit
    /\ \A i \in Inst : timerDue[i] # now
    /\ now' = now + Quantum
    /\ lastOp' = Op("advance", NoInst, 0, 0, FALSE)
    /\ UNCHANGED <<ls, mounted, sessionActive, dailyUptime, uptimeHistory, timerDue,
                   totalSessions, totalScenarios, query, opened, closed, apiCalls, sess,
                   fmtIn, fmtOut>>

Advance == AdvanceTo(MaxTime)

Next ==
    \/ \E i \in Inst : Mount(i)
    \/ \E i \in Inst : Tick(i)
    \/ \E i \in Inst : EndClick(i)
    \/ \E i \in Inst : UnloadStay(i)
    \/ \E i \in Inst : UnloadLeave(i)
    \/ \E i \in Inst : Unmount(i)
    \/ Advance

Spec == Init /\ [][Next]_vars

(* startSession called from the current render of a mounted component.    *)
(* No element of the panel calls it; it is the operation of the session   *)
(* tracker's contract.                                                    *)
StartSession(i) ==
    /\ mounted[i]
    /\ apiCalls < MaxApiCalls
    /\ apiCalls' = apiCalls + 1
    /\ LET r == startSession(ls, sessionActive[i], now)
       IN  /\ ls' = r.ls
           /\ sessionActive' = [sessionActive EXCEPT ![i] = r.sessionActive]
           /\ timerDue' = [timerDue EXCEPT ![i] = Rearm(i, r.sessionActive)]
           /\ lastOp' = Op("start", i, r.wrote, 0, FALSE)
           /\ closed' = IF r.wrote = 1 THEN FALSE ELSE closed
           /\ sess' = Foreign(i, [sess[i] EXCEPT
                                     !.t0 = IF r.wrote = 1 THEN now ELSE @,
                                     !.base = IF r.wrote = 1 THEN Stored ELSE @,
                                     !.n = IF r.wrote = 1 THEN 0 ELSE @,
                                     !.starts = IF r.wrote = 1 THEN 1 ELSE @,
                                     !.open = TRUE], FALSE)
    /\ UNCHANGED <<now, mounted, dailyUptime, uptimeHistory, totalSessions,
                   totalScenarios, query, opened, fmtIn, fmtOut>>

AdvanceApi == AdvanceTo(T0 + MaxApiClockSteps * Quantum)

NextApi ==
    \/ \E i \in Inst : Mount(i)
    \/ \E i \in Inst : StartSession(i)
    \/ \E i \in Inst : Tick(i)
    \/ \E i \in Inst : EndClick(i)
    \/ \E i \in Inst : UnloadStay(i)
    \/ \E i \in Inst : UnloadLeave(i)
    \/ \E i \in Inst : Unmount(i)
    \/ AdvanceApi

SpecApi == Init /\ [][NextApi]_vars

(* getDocs resolves: fetchScenarios continues with snapshot.size = size,  *)
(* whether or not the component is still mounted.                         *)
Resolve(i) ==
    /\ query[i] = "pending"
    /\ \E size \in 0..MaxScenarios :
          LET r == fetchScenarios(ls, dailyUptime[i], totalScenarios[i], mounted[i], size)
          IN  /\ ls' = r.ls
              /\ dailyUptime' = [dailyUptime EXCEPT ![i] = r.dailyUptime]
              /\ totalScenarios' = [totalScenarios EXCEPT ![i] = r.totalScenarios]
    /\ query' = [query EXCEPT ![i] = "done"]
    /\ lastOp' = Op("resolve", i, 0, 0, FALSE)
    /\ sess' = Foreign(i, sess[i], FALSE)
    /\ UNCHANGED <<now, mounted, sessionActive, uptimeHistory, timerDue, totalSessions,
                   opened, closed, apiCalls, fmtIn, fmtOut>>

(* getDocs rejects: fetchScenarios throws before setTotalScenarios.       *)
QueryFail(i) ==
    /\ query[i] = "pending"
    /\ query' = [query EXCEPT ![i] = "done"]
    /\ lastOp' = Op("reject", i, 0, 0, FALSE)
    /\ sess' = Foreign(i, sess[i], FALSE)
    /\ UNCHANGED <<now, ls, mounted, sessionActive, dailyUptime, uptimeHistory, timerDue,
                   totalSessions, totalScenarios, opened, closed, apiCalls, fmtIn, fmtOut>>

AdvanceQuery == AdvanceTo(T0 + MaxQueryClockSteps * Quantum)

(* Spec and SpecApi leave the query in flight; SpecQuery adds its outcome *)
(* to the handlers of Spec.  SpecAll has every operation of the component *)
(* in one panel.                                                          *)
NextQuery ==
    \/ \E i \in Inst : Mount(i)
    \/ \E i \in Inst : Resolve(i)
    \/ \E i \in Inst : QueryFail(i)
    \/ \E i \in Inst : Tick(i)
    \/ \E i \in Inst : EndClick(i)
    \/ \E i \in Inst : UnloadStay(i)
    \/ \E i \in Inst : UnloadLeave(i)
    \/ \E i \in Inst : Unmount(i)
    \/ AdvanceQuery

SpecQuery == Init /\ [][NextQuery]_vars

Single == {"tabA"}

NextAll ==
    \/ \E i \in Single : Mount(i)
    \/ \E i \in Single : StartSession(i)
    \/ \E i \in Single : Resolve(i)
    \/ \E i \in Single : QueryFail(i)
    \/ \E i \in Single : Tick(i)
    \/ \E i \in Single : EndClick(i)
    \/ \E i \in Single : UnloadStay(i)
    \/ \E i \in Single : UnloadLeave(i)
    \/ \E i \in Single : Unmount(i)
    \/ Advance

SpecAll == Init /\ [][NextAll]_vars

(* formatUptime applied to sampled arguments: every minute count up to    *)
(* MaxFmtMinutes and the neighbourhoods of 10, 100 and 500 hours, at the  *)
(* start, inside and at the end of the minute.                            *)
FormatMinutes ==
    (0..MaxFmtMinutes) \cup {599, 600, 601, 1439, 1440, 5999, 6000, 6001, 6059, 6060,
                             29999, 30000}

FormatInputs == { m * MsPerMinute + r : m \in FormatMinutes, r \in {0, 1, MsPerMinute - 1} }

InitFormat ==
    /\ Idle
    /\ ls = EmptyStorage
    /\ lastOp = Op("init", NoInst, 0, 0, FALSE)
    /\ fmtIn \in FormatInputs
    /\ fmtOut = formatUptime(fmtIn)

Render ==
    /\ fmtIn' \in FormatInputs
    /\ fmtOut' = formatUptime(fmtIn')
    /\ UNCHANGED <<now, ls, mounted, sessionActive, dailyUptime, uptimeHistory, timerDue,
                   totalSessions, totalScenarios, query, opened, closed, apiCalls, lastOp,
                   sess>>

NextFormat == Render

SpecFormat == InitFormat /\ [][NextFormat]_vars

(* ================================================================ claims *)
HundredHoursMs == 100 * MinutesPerHour * MsPerMinute

AllDigits(str) == \A k \in 1..Len(str) : IsDigit(str[k])

(* C1: after N consecutive accruing ticks of a panel whose own mount      *)
(* wrote the start marker (no other handler in between), the persisted    *)
(* daily total is exactly N * 60000 ms above its value before the first   *)
(* of them.                                                               *)
C1_TicksAddTickMs ==
    (lastOp.op = "tick" /\ lastOp.accrued /\ lastOp.s.solo /\ lastOp.s.t0 # NaN)
        => Stored = lastOp.s.base + (lastOp.s.n + 1) * TickMs

(* C2: when a session of a single panel ends (End Session, unload or      *)
(* unmount), the persisted daily total has grown since the session's      *)
(* start by exactly end time minus start time, whatever ticks fired.      *)
C2_EndChargesSessionLength ==
    (lastOp.op \in EndOps /\ lastOp.valid /\ lastOp.s.solo /\ lastOp.s.t0 # NaN)
        => Stored - lastOp.s.base = now - lastOp.s.t0

(* C3 as stated: whatever the persisted state at mount, a mount/unmount   *)
(* pair writes the start marker exactly once and ends the session exactly *)
(* once, and a page unload ends it exactly once.                          *)
C3_OneStartOneEnd ==
    /\ lastOp.op = "unmount" => lastOp.s.starts = 1 /\ lastOp.ends = 1
    /\ lastOp.op = "unload" => lastOp.ends = 1

(* C3 as amended: a mount that finds the persisted active flag "true"     *)
(* writes no start marker and adopts the recorded session, any other      *)
(* mount writes it exactly once, and no other handler of the panel writes *)
(* it; every unmount and every page unload runs endSession exactly once,  *)
(* which leaves the marker removed and the flag "false".                  *)
C3_StartUnlessAdopted ==
    /\ lastOp.op = "mount" =>
          /\ lastOp.starts = (IF sess[lastOp.inst].adopted THEN 0 ELSE 1)
          /\ sess[lastOp.inst].starts = lastOp.starts
    /\ lastOp.op \notin {"mount", "start"} => lastOp.starts = 0
    /\ lastOp.op = "unmount" =>
          lastOp.s.starts = (IF lastOp.s.adopted THEN 0 ELSE 1)
    /\ lastOp.op \in {"unmount", "unload"} =>
          /\ lastOp.ends = 1
          /\ KeyStart \notin DOMAIN ls
          /\ getItem(ls, KeyActive) = StrFalse

C3_Witness == lastOp.op = "unmount" /\ lastOp.s.adopted /\ lastOp.s.starts = 0

(* C4: a mount that finds no active session recorded, followed by the     *)
(* unmount with no tick and no other handler in between, writes the start *)
(* marker once, ends the session once, and raises the persisted daily     *)
(* total by exactly the time between mount and unmount.                   *)
C4_MountThenUnmount ==
    (lastOp.op = "unmount" /\ ~lastOp.s.adopted /\ lastOp.s.solo /\ lastOp.s.n = 0
        /\ lastOp.valid)
        => /\ lastOp.s.starts = 1
           /\ lastOp.ends = 1
           /\ Stored - lastOp.s.base = now - lastOp.s.t0

C4_Witness ==
    /\ lastOp.op = "unmount" /\ ~lastOp.s.adopted /\ lastOp.s.solo /\ lastOp.s.n = 0
    /\ lastOp.valid
    /\ now > lastOp.s.t0
    /\ lastOp.s.base > 0

(* C5: endSession with no start marker recorded (absent or unparsable)    *)
(* leaves the persisted and the in-memory daily total unchanged and the   *)
(* session inactive: persisted flag "false", in-memory flag FALSE.        *)
C5_EndWithoutMarker ==
    [][\A i \in Inst :
         (lastOp'.op \in EndOps /\ lastOp'.inst = i /\ ~MarkerValid) =>
            /\ getItem(ls', KeyUptime) = getItem(ls, KeyUptime)
            /\ getItem(ls', KeyActive) = StrFalse
            /\ mounted'[i] => dailyUptime'[i] = dailyUptime[i] /\ ~sessionActive'[i]]_vars

C5_Witness ==
    /\ lastOp.op \in {"end", "unload"} /\ ~lastOp.valid
    /\ mounted[lastOp.inst] /\ dailyUptime[lastOp.inst] > 0

C7_TotalMonotone == [][Stored' >= Stored]_vars

C7_Witness ==
    /\ lastOp.op \in EndOps /\ lastOp.valid /\ lastOp.s.n >= 1
    /\ Stored > lastOp.s.base

(* C8: with two panels over the same localStorage, at most one of them    *)
(* holds an active session and accrues uptime from the start marker.      *)
Accrues(i) == mounted[i] /\ sessionActive[i] /\ MarkerValid

C8_AtMostOneActive == \A i, j \in Inst : i # j => ~(Accrues(i) /\ Accrues(j))

(* C9: a tick that fires while the session is active with a valid start   *)
(* marker appends exactly one history entry whose minutes are             *)
(* floor(T / 60000), T the total the tick persists; a mounted panel has   *)
(* as many entries as such ticks have fired.                              *)
C9_TickAppendsEntry ==
    /\ [](\A i \in Inst : mounted[i] => Len(uptimeHistory[i]) = sess[i].n)
    /\ [][\A i \in Inst :
            (lastOp'.op = "tick" /\ lastOp'.inst = i /\ sessionActive[i] /\ MarkerValid) =>
               /\ lastOp'.accrued
               /\ uptimeHistory'[i] =
                     Append(uptimeHistory[i],
                            [time |-> now, uptime |-> Stored' \div MsPerMinute])]_vars

C9_Witness ==
    /\ lastOp.op = "tick" /\ lastOp.accrued
    /\ Len(uptimeHistory[lastOp.inst]) >= 2

(* C10 as stated: for every ms >= 0, formatUptime(ms) is "HHh MMm" with   *)
(* HH and MM exactly two digits, MM < 60 and HH * 60 + MM =               *)
(* floor(ms / 60000).                                                     *)
C10_TwoDigitFields ==
    /\ Len(fmtOut) = 7
    /\ AllDigits(SubSeq(fmtOut, 1, 2))
    /\ SubSeq(fmtOut, 3, 4) = <<"h", " ">>
    /\ AllDigits(SubSeq(fmtOut, 5, 6))
    /\ fmtOut[7] = "m"
    /\ parseInt(SubSeq(fmtOut, 5, 6)) < MinutesPerHour
    /\ parseInt(SubSeq(fmtOut, 1, 2)) * MinutesPerHour + parseInt(SubSeq(fmtOut, 5, 6))
          = fmtIn \div MsPerMinute

(* C10 as amended: for every ms >= 0, formatUptime(ms) is "Hh MMm" where  *)
(* MM is exactly two digits, MM < 60, H is the hour count zero-padded to  *)
(* at least two digits, and H * 60 + MM = floor(ms / 60000); H is exactly *)
(* two digits if and only if ms is below 100 hours.                       *)
C10_PaddedFields ==
    LET n == Len(fmtOut)
        hh == SubSeq(fmtOut, 1, n - 5)
        mm == SubSeq(fmtOut, n - 2, n - 1)
    IN  /\ n >= 7
        /\ AllDigits(hh)
        /\ Len(hh) > PadWidth => hh[1] # "0"
        /\ SubSeq(fmtOut, n - 4, n - 3) = <<"h", " ">>
        /\ AllDigits(mm)
        /\ fmtOut[n] = "m"
        /\ parseInt(mm) < MinutesPerHour
        /\ parseInt(hh) * MinutesPerHour + parseInt(mm) = fmtIn \div MsPerMinute
        /\ (n = 7) <=> (fmtIn < HundredHoursMs)

C10_Witness ==
    /\ fmtIn >= HundredHoursMs
    /\ Len(fmtOut) = 8
    /\ fmtIn % MsPerMinute # 0

(* C11: ending a session charges at most once: every endSession leaves    *)
(* the start marker removed, and an endSession that runs after another    *)
(* with no start in between (unload then unmount, End Session twice)      *)
(* leaves the persisted daily total as it was.                            *)
C11_EndChargesOnce ==
    /\ [](lastOp.op \in EndOps => KeyStart \notin DOMAIN ls)
    /\ [][(lastOp'.op \in EndOps /\ closed) =>
             getItem(ls', KeyUptime) = getItem(ls, KeyUptime)]_vars

C11_Witness ==
    /\ lastOp.op = "unmount" /\ ~lastOp.valid
    /\ lastOp.s.solo /\ lastOp.s.t0 # NaN /\ now > lastOp.s.t0
    /\ Stored > lastOp.s.base

(* C12: from the completion of a session end until the next session       *)
(* start no event changes the persisted daily total, and no tick fires    *)
(* for a component that is not mounted.                                   *)
C12_TotalFrozenWhenClosed ==
    /\ [][closed => getItem(ls', KeyUptime) = getItem(ls, KeyUptime)]_vars
    /\ [][lastOp'.op = "tick" => mounted[lastOp'.inst]]_vars

C12_Witness ==
    /\ closed /\ lastOp.op = "tick" /\ ~lastOp.accrued
    /\ Stored > 0

(* C13: a tick that fires while the in-memory active flag is true and the *)
(* persisted start marker is absent or unparsable changes neither         *)
(* localStorage nor the in-memory daily total nor the uptime history.     *)
C13_TickWithoutMarker ==
    [][\A i \in Inst :
         (lastOp'.op = "tick" /\ lastOp'.inst = i /\ sessionActive[i] /\ ~MarkerValid) =>
            /\ ls' = ls
            /\ dailyUptime'[i] = dailyUptime[i]
            /\ uptimeHistory'[i] = uptimeHistory[i]]_vars

C13_Witness ==
    /\ lastOp.op = "tick" /\ ~lastOp.valid /\ ~lastOp.s.solo
    /\ sessionActive[lastOp.inst]
    /\ KeyStart \notin DOMAIN ls

(* C14: the scenario query is issued by the mount and by nothing else;    *)
(* its resolution, wherever it falls among the other handlers, leaves     *)
(* localStorage, the active flag, the daily total, the uptime history and *)
(* the interval unchanged, changes only the displayed scenario count of   *)
(* its own component, and changes nothing of a component no longer        *)
(* mounted.                                                               *)
C14_QueryTouchesOnlyCount ==
    /\ [](lastOp.op = "mount" => query[lastOp.inst] = "pending")
    /\ [][\A i \in Inst :
            (query'[i] = "pending" /\ query[i] # "pending") =>
               (lastOp'.op = "mount" /\ lastOp'.inst = i)]_vars
    /\ [][\A i \in Inst :
            (lastOp'.op = "resolve" /\ lastOp'.inst = i /\ query[i] = "pending") =>
               /\ ls' = ls
               /\ sessionActive' = sessionActive
               /\ dailyUptime' = dailyUptime
               /\ uptimeHistory' = uptimeHistory
               /\ timerDue' = timerDue
               /\ mounted' = mounted
               /\ totalSessions' = totalSessions
               /\ \A j \in Inst \ {i} : totalScenarios'[j] = totalScenarios[j]
               /\ ~mounted[i] => totalScenarios'[i] = totalScenarios[i]]_vars

C14_Witness ==
    /\ lastOp.op = "resolve" /\ mounted[lastOp.inst]
    /\ totalScenarios[lastOp.inst] > 0
    /\ lastOp.s.n >= 1 /\ Stored > 0

(* C15: no operation of the component writes or removes the persisted     *)
(* sessionCount entry; a mounted component displays the value the entry   *)
(* had at its mount.                                                      *)
C15_SessionCountUntouched ==
    /\ [][/\ (KeyCount \in DOMAIN ls') <=> (KeyCount \in DOMAIN ls)
          /\ getItem(ls', KeyCount) = getItem(ls, KeyCount)]_vars
    /\ [](\A i \in Inst : mounted[i] => totalSessions[i] = sessionCountEffect(ls))

C15_Witness ==
    /\ KeyCount \in DOMAIN ls /\ apiCalls >= 1
    /\ lastOp.op = "unmount" /\ lastOp.s.n >= 1
    /\ query[lastOp.inst] = "done"

(* C16: after every handler, in any number of instances over the same     *)
(* localStorage, the start marker is present if and only if the persisted *)
(* active flag is "true".                                                 *)
C16_MarkerIffFlag == (KeyStart \in DOMAIN ls) <=> (getItem(ls, KeyActive) = StrTrue)

C16_Witness ==
    /\ lastOp.op = "start" /\ lastOp.starts = 1 /\ ~lastOp.s.solo
    /\ KeyStart \in DOMAIN ls

(* C17: a mounted panel that no other instance has interfered with shows  *)
(* the persisted state: its in-memory daily total equals the persisted    *)
(* daily total and its in-memory active flag equals the persisted one.    *)
C17_MemoryMatchesStorage ==
    \A i \in Inst :
        (mounted[i] /\ sess[i].solo) =>
            /\ dailyUptime[i] = Stored
            /\ sessionActive[i] = (getItem(ls, KeyActive) = StrTrue)

C17_Witness ==
    /\ lastOp.op = "tick" /\ lastOp.accrued /\ lastOp.s.solo
    /\ mounted[lastOp.inst] /\ sess[lastOp.inst].solo
    /\ dailyUptime[lastOp.inst] > TickMs

====
